---- MODULE Spec2Model ----
(***************************************************************************)
(* DNN face detector (modules/dnn_face/src/detect.cpp): prior generation,  *)
(* per-anchor decoding and non-maximum suppression of DNNFaceDetectorImpl. *)
(*                                                                         *)
(* Numbers.  The code computes in float/double.  The model computes in     *)
(* exact rationals <<n, d>> (d > 0, lowest terms); <<0, 0>> stands for a   *)
(* NaN, which compares false with everything.  std::sqrt is exact on the   *)
(* perfect squares the inputs are drawn from, and std::exp is replaced by  *)
(* its second-order Taylor polynomial (positive everywhere, exp(0) = 1).   *)
(* int arithmetic is C's: division truncates toward zero.                  *)
(***************************************************************************)
EXTENDS Integers, Sequences, FiniteSets

VARIABLES
    pc,              \* "new": not constructed; "ready": constructor returned; "failed": constructor threw
    img_w, img_h,    \* detect.cpp:216-217
    scoreThreshold,  \* detect.cpp:218
    nmsThreshold,    \* detect.cpp:219
    topK,            \* detect.cpp:220
    priors,          \* detect.cpp:222
    loc, conf, iou,  \* output_blobs of the last forward(), flattened row-major as loc_v/conf_v/iou_v read them
    faces,           \* postProcess: the decoded rows (Mat faces) of the last call
    keepIdx,         \* postProcess: the indices NMSBoxes kept (from 1; empty when it did not run)
    ret,             \* postProcess: the rows it returned
    err,             \* how the last call ended: "none", "assert" (cv::Exception), "segv" (crash on an out-of-bounds read)
    calls,           \* how many times forward() has run
    first            \* history: the rows given to the first forward() and what it produced

vars == <<pc, img_w, img_h, scoreThreshold, nmsThreshold, topK, priors,
          loc, conf, iou, faces, keepIdx, ret, err, calls, first>>

config == <<img_w, img_h, scoreThreshold, nmsThreshold, topK, priors>>

-----------------------------------------------------------------------------
(* Bounds of the model *)

\* the largest width and height of the detector in Spec
MaxDim == 7
\* top_k in Spec ranges over 0 .. MaxTopK
MaxTopK == 2
\* widths and heights in SpecPriors include 1 .. MaxPriorDim
MaxPriorDim == 24
\* forward() runs at most MaxCalls times
MaxCalls == 3

-----------------------------------------------------------------------------
(* float arithmetic as exact rationals *)

Abs(n) == IF n < 0 THEN -n ELSE n

RECURSIVE GCD(_, _)
GCD(a, b) == IF b = 0 THEN a ELSE GCD(b, a % b)

RNorm(n, d) ==
    IF d = 0 THEN <<0, 0>>
    ELSE LET g == GCD(Abs(n), Abs(d))
             s == IF d < 0 THEN -1 ELSE 1
         IN  <<(s * n) \div g, (s * d) \div g>>

R(n) == <<n, 1>>
Q(n, d) == RNorm(n, d)
NaN == <<0, 0>>
IsNaN(a) == a[2] = 0

RAdd(a, b) == RNorm(a[1] * b[2] + b[1] * a[2], a[2] * b[2])
RSub(a, b) == RNorm(a[1] * b[2] - b[1] * a[2], a[2] * b[2])
RMul(a, b) == RNorm(a[1] * b[1], a[2] * b[2])
RDiv(a, b) == RNorm(a[1] * b[2], a[2] * b[1])
RLt(a, b) == ~IsNaN(a) /\ ~IsNaN(b) /\ a[1] * b[2] < b[1] * a[2]
RGt(a, b) == RLt(b, a)
RLe(a, b) == ~IsNaN(a) /\ ~IsNaN(b) /\ a[1] * b[2] <= b[1] * a[2]
RGe(a, b) == RLe(b, a)

\* int(a / 2) on C ints: truncation toward zero
CDiv2(a) == IF a >= 0 THEN a \div 2 ELSE -((-a) \div 2)

\* conversion float -> int (Rect2i built from floats): truncation toward zero
Trunc(a) == IF a[1] >= 0 THEN a[1] \div a[2] ELSE -((-a[1]) \div a[2])

\* std::sqrt on the perfect squares used as inputs; NaN below zero
ISqrt(n) == CHOOSE k \in 0..n : k * k = n
Sqrt(a) == IF IsNaN(a) \/ a[1] < 0 THEN NaN ELSE <<ISqrt(a[1]), ISqrt(a[2])>>

\* exp, approximated by 1 + x + x^2/2
Exp(a) == RAdd(RAdd(R(1), a), RDiv(RMul(a, a), R(2)))

-----------------------------------------------------------------------------
(* generatePriors *)

\* Size feature_map_2nd .. feature_map_6th of one dimension
feature_map_2nd(dim) == CDiv2(CDiv2(dim + 1))
feature_map_3rd_Unhalved(dim) == feature_map_2nd(dim)
feature_map_3rd(dim) == CDiv2(feature_map_2nd(dim))
feature_map_4th(dim) == CDiv2(feature_map_3rd(dim))
feature_map_5th(dim) == CDiv2(feature_map_4th(dim))
feature_map_6th(dim) == CDiv2(feature_map_5th(dim))

\* feature_map_sizes, as <<width, height>>, indexed from 1
feature_map_sizes(w, h) ==
    << <<feature_map_3rd(w), feature_map_3rd(h)>>,
       <<feature_map_4th(w), feature_map_4th(h)>>,
       <<feature_map_5th(w), feature_map_5th(h)>>,
       <<feature_map_6th(w), feature_map_6th(h)>> >>

min_sizes == << <<10, 16, 24>>, <<32, 48>>, <<64, 96>>, <<128, 192, 256>> >>
steps == <<8, 16, 32, 64>>

\* the body of the innermost loop: one prior
MakePriorSkewed(w, h, i, _h, _w, j) ==
    [ x      |-> RDiv(RMul(RAdd(R(_w), Q(1, 2)), R(steps[i])), R(h)),
      y      |-> RDiv(RMul(RAdd(R(_h), Q(1, 2)), R(steps[i])), R(w)),
      width  |-> RDiv(R(min_sizes[i][j]), R(w)),
      height |-> RDiv(R(min_sizes[i][j]), R(h)) ]

MakePrior(w, h, i, _h, _w, j) ==
    [ x      |-> RDiv(RMul(RAdd(R(_w), Q(1, 2)), R(steps[i])), R(w)),
      y      |-> RDiv(RMul(RAdd(R(_h), Q(1, 2)), R(steps[i])), R(h)),
      width  |-> RDiv(R(min_sizes[i][j]), R(w)),
      height |-> RDiv(R(min_sizes[i][j]), R(h)) ]

\* for (j = 0; j < min_size.size(); ++j)
RECURSIVE LoopSizes(_, _, _, _, _, _)
LoopSizes(w, h, i, _h, _w, j) ==
    IF j > Len(min_sizes[i]) THEN <<>>
    ELSE <<MakePrior(w, h, i, _h, _w, j)>> \o LoopSizes(w, h, i, _h, _w, j + 1)

\* for (_w = 0; _w < feature_map_size.width; ++_w)
RECURSIVE LoopCols(_, _, _, _, _)
LoopCols(w, h, i, _h, _w) ==
    IF _w >= feature_map_sizes(w, h)[i][1] THEN <<>>
    ELSE LoopSizes(w, h, i, _h, _w, 1) \o LoopCols(w, h, i, _h, _w + 1)

\* for (_h = 0; _h < feature_map_size.height; ++_h)
RECURSIVE LoopRows(_, _, _, _)
LoopRows(w, h, i, _h) ==
    IF _h >= feature_map_sizes(w, h)[i][2] THEN <<>>
    ELSE LoopCols(w, h, i, _h, 0) \o LoopRows(w, h, i, _h + 1)

RECURSIVE LoopLevelsReversed(_, _, _)
LoopLevelsReversed(w, h, i) ==
    IF i > Len(steps) THEN <<>>
    ELSE LoopLevelsReversed(w, h, i + 1) \o LoopRows(w, h, i, 0)

\* for (i = 0; i < feature_map_sizes.size(); ++i)
RECURSIVE LoopLevels(_, _, _)
LoopLevels(w, h, i) ==
    IF i > Len(steps) THEN <<>>
    ELSE LoopRows(w, h, i, 0) \o LoopLevels(w, h, i + 1)

generatePriors(w, h) == LoopLevels(w, h, 1)

-----------------------------------------------------------------------------
(* the constructor *)

DefaultScoreThreshold == Q(9, 10)
DefaultNmsThreshold == Q(3, 10)
DefaultTopK == 5000

Init ==
    /\ pc = "new"
    /\ img_w = 0 /\ img_h = 0
    /\ scoreThreshold = R(0) /\ nmsThreshold = R(0) /\ topK = 0
    /\ priors = <<>>
    /\ loc = <<>> /\ conf = <<>> /\ iou = <<>>
    /\ faces = <<>> /\ keepIdx = <<>> /\ ret = <<>>
    /\ err = "none"
    /\ calls = 0
    /\ first = <<>>

\* DNNFaceDetectorImpl(onnx_path, input_width, input_height, score_threshold,
\* nms_threshold, top_k, ...); netOk: whether readNet produced a non-empty net
Construct(netOk, input_width, input_height, score_threshold, nms_threshold, top_k) ==
    /\ pc = "new"
    /\ IF ~netOk
       THEN /\ pc' = "failed"
            /\ err' = "assert"
            /\ UNCHANGED <<config, loc, conf, iou, faces, keepIdx, ret, calls, first>>
       ELSE /\ pc' = "ready"
            /\ img_w' = input_width
            /\ img_h' = input_height
            /\ scoreThreshold' = score_threshold
            /\ nmsThreshold' = nms_threshold
            /\ topK' = top_k
            /\ priors' = generatePriors(input_width, input_height)
            /\ UNCHANGED <<loc, conf, iou, faces, keepIdx, ret, err, calls, first>>

-----------------------------------------------------------------------------
(* postProcess: decoding *)

variance == <<Q(1, 10), Q(2, 10)>>

\* iouScore after the clamp to [0, 1]
Clamp(v) == IF RLt(v, R(0)) THEN R(0) ELSE IF RGt(v, R(1)) THEN R(1) ELSE v

\* loc_v[i*14 + c], conf_v[i*2 + c], iou_v[i]: C indices into the flat buffers
\* (TLA+ sequences are indexed from 1)
LocAtStride4(locMem, i, c) == locMem[i * 4 + c + 1]
LocAt(locMem, i, c) == locMem[i * 14 + c + 1]
ConfAt(confMem, i, c) == confMem[i * 2 + c + 1]
IouAt(iouMem, i) == iouMem[i + 1]

\* one iteration of the decode loop: the 1x15 row
\* (tl_x, tl_y, w, h, re_x, re_y, le_x, le_y, nt_x, nt_y, rcm_x, rcm_y, lcm_x, lcm_y, score)
DecodeFace(p, w, h, locMem, confMem, iouMem, i) ==
    LET clsScore == ConfAt(confMem, i, 1)
        iouScore == Clamp(IouAt(iouMem, i))
        score == Sqrt(RMul(clsScore, iouScore))
        PX(c) == RMul(RAdd(p.x, RMul(RMul(LocAt(locMem, i, c), variance[1]), p.width)), R(w))
        PY(c) == RMul(RAdd(p.y, RMul(RMul(LocAt(locMem, i, c), variance[1]), p.height)), R(h))
        cx == PX(0)
        cy == PY(1)
        bw == RMul(RMul(p.width, Exp(RMul(LocAt(locMem, i, 2), variance[1]))), R(w))
        bh == RMul(RMul(p.height, Exp(RMul(LocAt(locMem, i, 3), variance[2]))), R(h))
        x1 == RSub(cx, RDiv(bw, R(2)))
        y1 == RSub(cy, RDiv(bh, R(2)))
    IN  <<x1, y1, bw, bh,
          PX(4), PY(5), PX(6), PY(7), PX(8), PY(9), PX(10), PY(11), PX(12), PY(13),
          score>>

\* for (i = 0; i < priors.size(); ++i) { ...; faces.push_back(face); }
RECURSIVE DecodeLoop(_, _, _, _, _, _, _)
DecodeLoop(ps, w, h, locMem, confMem, iouMem, i) ==
    IF i >= Len(ps) THEN <<>>
    ELSE <<DecodeFace(ps[i + 1], w, h, locMem, confMem, iouMem, i)>>
         \o DecodeLoop(ps, w, h, locMem, confMem, iouMem, i + 1)

-----------------------------------------------------------------------------
(* postProcess: suppression.  dnn::NMSBoxes is OpenCV's (modules/dnn,      *)
(* nms.inl.hpp); it is modelled by what that library does.                 *)

\* Rect2i(float, float, float, float): each argument converted to int
ToRect2iSwapped(face) ==
    [x |-> Trunc(face[1]), y |-> Trunc(face[2]), width |-> Trunc(face[4]), height |-> Trunc(face[3])]
ToRect2i(face) ==
    [x |-> Trunc(face[1]), y |-> Trunc(face[2]), width |-> Trunc(face[3]), height |-> Trunc(face[4])]

faceBoxes(fs) == [r \in 1..Len(fs) |-> ToRect2i(fs[r])]
faceScores(fs) == [r \in 1..Len(fs) |-> fs[r][15]]

Max(a, b) == IF a >= b THEN a ELSE b
Min(a, b) == IF a <= b THEN a ELSE b

\* (a & b).area() of two Rect2i
IntersectionArea(a, b) ==
    LET x1 == Max(a.x, b.x)
        y1 == Max(a.y, b.y)
        iw == Min(a.x + a.width, b.x + b.width) - x1
        ih == Min(a.y + a.height, b.y + b.height) - y1
    IN  IF iw <= 0 \/ ih <= 0 THEN 0 ELSE iw * ih

\* rectOverlap(a, b) = 1 - jaccardDistance(a, b)
rectOverlap(a, b) ==
    LET Aa == a.width * a.height
        Ab == b.width * b.height
        Aab == IntersectionArea(a, b)
    IN  IF Aa + Ab <= 0 THEN R(1) ELSE Q(Aab, Aa + Ab - Aab)

\* std::stable_sort by score, descending: insertion after every element that
\* does not compare smaller
RECURSIVE InsertDescending(_, _, _)
InsertDescending(sorted, idx, scores) ==
    IF sorted = <<>> THEN <<idx>>
    ELSE IF RGt(scores[idx], scores[Head(sorted)])
         THEN <<idx>> \o sorted
         ELSE <<Head(sorted)>> \o InsertDescending(Tail(sorted), idx, scores)

RECURSIVE StableSortDescending(_, _)
StableSortDescending(idxs, scores) ==
    IF idxs = <<>> THEN <<>>
    ELSE InsertDescending(
             StableSortDescending(SubSeq(idxs, 1, Len(idxs) - 1), scores),
             idxs[Len(idxs)], scores)

\* the indices whose score is above the threshold, in index order
RECURSIVE AboveThreshold(_, _, _)
AboveThreshold(scores, threshold, i) ==
    IF i > Len(scores) THEN <<>>
    ELSE (IF RGt(scores[i], threshold) THEN <<i>> ELSE <<>>)
         \o AboveThreshold(scores, threshold, i + 1)

\* GetMaxScoreIndex: filter, stable sort, keep top_k if top_k > 0
GetMaxScoreIndex(scores, threshold, top_k) ==
    LET sorted == StableSortDescending(AboveThreshold(scores, threshold, 1), scores)
    IN  IF top_k > 0 /\ top_k < Len(sorted) THEN SubSeq(sorted, 1, top_k) ELSE sorted

\* NMSFast_: walk the sorted candidates, keep one when its overlap with every
\* kept one is <= nms_threshold (eta = 1: the threshold never adapts)
RECURSIVE NMSFastLoop(_, _, _, _, _)
NMSFastLoop(bboxes, score_index_vec, nms_threshold, i, indices) ==
    IF i > Len(score_index_vec) THEN indices
    ELSE LET idx == score_index_vec[i]
             keep == \A k \in 1..Len(indices) :
                        RLe(rectOverlap(bboxes[idx], bboxes[indices[k]]), nms_threshold)
         IN  NMSFastLoop(bboxes, score_index_vec, nms_threshold, i + 1,
                         IF keep THEN Append(indices, idx) ELSE indices)

\* CV_Assert_N(bboxes.size() == scores.size(), score_threshold >= 0, nms_threshold >= 0, eta > 0)
NMSBoxesAccepts(score_threshold, nms_threshold) ==
    RGe(score_threshold, R(0)) /\ RGe(nms_threshold, R(0))

\* keepIdx (indexed from 1 here)
NMSBoxes(bboxes, scores, score_threshold, nms_threshold, top_k) ==
    NMSFastLoop(bboxes, GetMaxScoreIndex(scores, score_threshold, top_k), nms_threshold, 1, <<>>)

\* dnn::NMSBoxes(faceBoxes, faceScores, scoreThreshold, nmsThreshold, keepIdx, 1.f, topK)
\* on the decoded rows fs
KeepIdxTopKOmitted(fs) ==
    NMSBoxes(faceBoxes(fs), faceScores(fs), scoreThreshold, nmsThreshold, 0)
KeepIdx(fs) ==
    NMSBoxes(faceBoxes(fs), faceScores(fs), scoreThreshold, nmsThreshold, topK)

\* if (faces.rows > 1)
TakesNMSPathAbove3(fs) == Len(fs) > 3
TakesNMSPath(fs) == Len(fs) > 1

\* the part of postProcess after the decode loop, on the decoded rows faces'
Suppress ==
    IF TakesNMSPath(faces')
    THEN IF ~NMSBoxesAccepts(scoreThreshold, nmsThreshold)
         THEN /\ keepIdx' = <<>>
              /\ ret' = <<>>
              /\ err' = "assert"
         ELSE /\ keepIdx' = KeepIdx(faces')
              /\ ret' = [k \in 1..Len(keepIdx') |-> faces'[keepIdx'[k]]]
              /\ err' = "none"
    ELSE /\ keepIdx' = <<>>
         /\ ret' = faces'
         /\ err' = "none"

-----------------------------------------------------------------------------
(* forward: the network's three output blobs, then postProcess *)

\* rows of loc: (dx, dy, dw, dh, 10 landmark deltas)
LocZero == <<R(0), R(0), R(0), R(0), R(0), R(0), R(0), R(0), R(0), R(0), R(0), R(0), R(0), R(0)>>
LocLeft == <<R(-5), Q(5, 2), R(0), R(-5), R(1), R(2), R(3), R(4), R(5), R(-1), R(-2), R(-3), R(-4), R(-5)>>
LocWide == <<R(0), Q(5, 2), R(10), R(0), Q(5, 2), R(0), Q(5, 2), R(0), Q(5, 2), R(0), R(5), R(0), R(5), R(0)>>
\* rows of conf: (background, face)
ConfFace == <<R(0), R(1)>>
ConfWeak == <<Q(3, 4), Q(1, 4)>>

\* one anchor's rows of loc, conf and iou; iou lies inside and outside [0, 1]
AnchorInputs ==
    { <<LocZero, ConfFace, <<R(4)>> >>,
      <<LocLeft, ConfFace, <<R(4)>> >>,
      <<LocWide, ConfFace, <<Q(1, 4)>> >>,
      <<LocLeft, ConfWeak, <<R(4)>> >>,
      <<LocWide, ConfFace, <<R(1)>> >>,
      <<LocZero, ConfWeak, <<R(-1)>> >> }
\* the row a blob with one row too many ends with, and every row of the
\* blobs of a call made between two others
ExtraRow == <<LocZero, ConfFace, <<R(4)>> >>
\* what the memory after a blob that is one row short may hold
GarbageRows == { <<LocLeft, ConfFace, <<R(4)>> >>, <<LocWide, ConfWeak, <<R(-1)>> >> }

RECURSIVE Flatten(_, _)
Flatten(rows, part) ==
    IF rows = <<>> THEN <<>> ELSE Head(rows)[part] \o Flatten(Tail(rows), part)

RowCounts(n) == { r \in {n - 1, n, n + 1} : r >= 0 }
InputRows(n, r) ==
    IF r <= n THEN [1..r -> AnchorInputs]
    ELSE { f \o <<ExtraRow>> : f \in [1..n -> AnchorInputs] }
Tails(n, r) == IF r < n THEN [1..(n - r) -> GarbageRows] ELSE { <<>> }
Crashes(n, r) == IF r < n THEN BOOLEAN ELSE { FALSE }

\* forward(image) up to the return of postProcess.  rows are the blobs' rows;
\* when the blobs have fewer rows than there are priors, the decode loop
\* reads past their end: it reads whatever follows them (tail), or the
\* process crashes
ForwardBody(rows, tail, crash) ==
    /\ pc = "ready"
    /\ LET locMem == Flatten(rows \o tail, 1)
           confMem == Flatten(rows \o tail, 2)
           iouMem == Flatten(rows \o tail, 3)
       IN  /\ loc' = Flatten(rows, 1)
           /\ conf' = Flatten(rows, 2)
           /\ iou' = Flatten(rows, 3)
           /\ IF crash
              THEN /\ faces' = <<>>
                   /\ keepIdx' = <<>>
                   /\ ret' = <<>>
                   /\ err' = "segv"
              ELSE /\ faces' = DecodeLoop(priors, img_w, img_h, locMem, confMem, iouMem, 0)
                   /\ Suppress
    /\ calls' = calls + 1
    /\ first' = IF calls = 0 THEN [rows |-> rows, ret |-> ret', err |-> err'] ELSE first

ForwardRegeneratingPriors(rows, tail, crash) ==
    /\ ForwardBody(rows, tail, crash)
    /\ priors' = priors \o generatePriors(img_w, img_h)
    /\ UNCHANGED <<pc, img_w, img_h, scoreThreshold, nmsThreshold, topK>>

\* forward() and postProcess() write no member of the detector
Forward(rows, tail, crash) ==
    /\ ForwardBody(rows, tail, crash)
    /\ UNCHANGED <<pc, config>>

-----------------------------------------------------------------------------
(* Spec: one detector, constructed once, then up to MaxCalls forward calls: *)
(* the first with any blobs, the later ones with the first call's blobs     *)
(* again or with the blobs InBetween                                        *)

Dims == {-1, 0, MaxDim}
\* <<score_threshold, nms_threshold>>
Thresholds == { <<Q(-1, 10), Q(3, 10)>>, <<R(0), Q(3, 10)>>, <<Q(1, 2), Q(3, 10)>> }
TopKs == 0..MaxTopK

ConstructStep ==
    \E netOk \in BOOLEAN, w \in Dims, h \in Dims, t \in Thresholds, k \in TopKs :
        Construct(netOk, w, h, t[1], t[2], k)

ForwardStep ==
    /\ calls = 0
    /\ \E r \in RowCounts(Len(priors)) :
        \E rows \in InputRows(Len(priors), r), tail \in Tails(Len(priors), r),
           crash \in Crashes(Len(priors), r) :
            Forward(rows, tail, crash)

InBetween == [k \in 1..Len(priors) |-> ExtraRow]

ForwardAgainStep ==
    /\ calls >= 1
    /\ calls < MaxCalls
    /\ \E rows \in {first.rows, InBetween} :
        \E tail \in Tails(Len(priors), Len(rows)), crash \in Crashes(Len(priors), Len(rows)) :
            Forward(rows, tail, crash)

Next == ConstructStep \/ ForwardStep \/ ForwardAgainStep

Spec == Init /\ [][Next]_vars

-----------------------------------------------------------------------------
(* SpecPriors: construction alone, over resolutions up to 320x320 *)

PriorDims == {-20, 0} \cup (1..MaxPriorDim) \cup {64, 240, 320}

ConstructDefault ==
    \E w \in PriorDims, h \in PriorDims :
        Construct(TRUE, w, h, DefaultScoreThreshold, DefaultNmsThreshold, DefaultTopK)

NextPriors == ConstructDefault

SpecPriors == Init /\ [][NextPriors]_vars

-----------------------------------------------------------------------------
(* Properties of the prior list, under SpecPriors *)

Constructed == pc = "ready"
PositiveDims == img_w > 0 /\ img_h > 0

\* the number of priors carrying one of the stride-8 level's anchor sizes {10, 16, 24}
Stride8Count ==
    Cardinality({ k \in 1..Len(priors) :
                    \E s \in {10, 16, 24} : priors[k].width = Q(s, img_w) })

\* C6 as stated: the stride-8 level's feature map is the input halved twice,
\* (((W+1)/2)/2, ((H+1)/2)/2), i.e. (80, 60) for 320x240, and the level
\* contributes 80*60*3 priors.
C6_Stride8MapIsHalvedTwice ==
    (Constructed /\ PositiveDims) =>
        /\ Stride8Count = 3 * (((img_w + 1) \div 2) \div 2) * (((img_h + 1) \div 2) \div 2)
        /\ (img_w = 320 /\ img_h = 240) => Stride8Count = 80 * 60 * 3

\* C6 amended: the stride-8 level's feature map is the input halved three
\* times, ((((W+1)/2)/2)/2, (((H+1)/2)/2)/2), i.e. (40, 30) for 320x240, and
\* the level contributes 40*30*3 priors.
C6_Stride8MapIsHalvedThrice ==
    (Constructed /\ PositiveDims) =>
        /\ Stride8Count = 3 * ((((img_w + 1) \div 2) \div 2) \div 2)
                            * ((((img_h + 1) \div 2) \div 2) \div 2)
        /\ (img_w = 320 /\ img_h = 240) => Stride8Count = 40 * 30 * 3

C6_Witness ==
    Constructed /\ img_w = 320 /\ img_h = 240 /\ Stride8Count = 3600

InUnit(a) == RLe(R(0), a) /\ RLe(a, R(1))

\* C7 as stated: for positive width and height every prior has cx, cy,
\* base_w and base_h inside [0, 1].
C7_AllFieldsNormalized ==
    (Constructed /\ PositiveDims) =>
        \A k \in 1..Len(priors) :
            /\ InUnit(priors[k].x) /\ InUnit(priors[k].y)
            /\ InUnit(priors[k].width) /\ InUnit(priors[k].height)

\* C7 amended: for positive width and height every prior has cx and cy
\* inside [0, 1] and base_w, base_h positive; base_w and base_h are all
\* inside [0, 1] once the width and the height are at least 256, the largest
\* anchor size.
C7_CentersNormalizedSizesPositive ==
    (Constructed /\ PositiveDims) =>
        \A k \in 1..Len(priors) :
            /\ InUnit(priors[k].x) /\ InUnit(priors[k].y)
            /\ RGt(priors[k].width, R(0)) /\ RGt(priors[k].height, R(0))
            /\ (img_w >= 256 /\ img_h >= 256) =>
                   (InUnit(priors[k].width) /\ InUnit(priors[k].height))

C7_Witness ==
    /\ Constructed /\ img_w = 320 /\ img_h = 240
    /\ \E k \in 1..Len(priors) : RGt(priors[k].height, R(1)) /\ InUnit(priors[k].x)

C9_Sizes == << <<10, 16, 24>>, <<32, 48>>, <<64, 96>>, <<128, 192, 256>> >>
C9_Strides == <<8, 16, 32, 64>>
\* the feature map of level i (1: 3rd .. 4: 6th) along a dimension
C9_Map(dim, i) == ((dim + 1) \div 2) \div (2 ^ (i + 1))
C9_LevelCount(i) == Len(C9_Sizes[i]) * C9_Map(img_w, i) * C9_Map(img_h, i)
RECURSIVE C9_Offset(_)
C9_Offset(i) == IF i = 1 THEN 0 ELSE C9_Offset(i - 1) + C9_LevelCount(i - 1)

\* C9: for positive width and height the prior list has length
\* 3*w3*h3 + 2*w4*h4 + 2*w5*h5 + 3*w6*h6, the levels follow one another from
\* the 3rd to the 6th, and within a level the prior of cell (_h, _w) and size
\* index j sits at offset (_h*width + _w)*|sizes| + j, with
\* cx = (_w+0.5)*stride/image_width, cy = (_h+0.5)*stride/image_height,
\* base_w = s/image_width, base_h = s/image_height, strides {8, 16, 32, 64}.
C9_PriorOrder ==
    (Constructed /\ PositiveDims) =>
        /\ Len(priors) = C9_Offset(5)
        /\ \A i \in 1..4 :
             \A _h \in 0..(C9_Map(img_h, i) - 1), _w \in 0..(C9_Map(img_w, i) - 1),
                j \in 1..Len(C9_Sizes[i]) :
                 priors[C9_Offset(i) + (_h * C9_Map(img_w, i) + _w) * Len(C9_Sizes[i]) + j]
                   = [ x      |-> Q((2 * _w + 1) * C9_Strides[i], 2 * img_w),
                       y      |-> Q((2 * _h + 1) * C9_Strides[i], 2 * img_h),
                       width  |-> Q(C9_Sizes[i][j], img_w),
                       height |-> Q(C9_Sizes[i][j], img_h) ]

C9_Witness ==
    /\ Constructed /\ img_w = 320 /\ img_h = 240
    /\ Len(priors) = 3 * 40 * 30 + 2 * 20 * 15 + 2 * 10 * 7 + 3 * 5 * 3

-----------------------------------------------------------------------------
(* Properties of forward / postProcess, under Spec *)

\* forward() has run and postProcess returned a list
Returned == pc = "ready" /\ calls >= 1 /\ err = "none"
\* the blobs of the last call have one row per prior
RowsMatch == Len(loc) = 14 * Len(priors) /\ Len(conf) = 2 * Len(priors) /\ Len(iou) = Len(priors)
\* postProcess returned a list for blobs with one row per prior
ReturnedForMatchingRows == Returned /\ RowsMatch

\* C1 as stated: a detector is never constructed with a non-positive width
\* or height, and a call whose blobs do not have one row per prior ends in
\* an error raised to the caller before any candidate is decoded; it
\* returns no list.
C1_PreconditionViolationsAreSignalled ==
    /\ pc = "ready" => (img_w > 0 /\ img_h > 0)
    /\ (pc = "ready" /\ calls >= 1 /\ ~RowsMatch) => (err = "assert" /\ faces = <<>> /\ ret = <<>>)

\* the box (x, y, w, h) of a row, as returned and as suppression sees it
BoxOf(face) == [x |-> face[1], y |-> face[2], width |-> face[3], height |-> face[4]]
TruncatedBoxOf(face) ==
    [x |-> R(Trunc(face[1])), y |-> R(Trunc(face[2])),
     width |-> R(Trunc(face[3])), height |-> R(Trunc(face[4]))]
RMax(a, b) == IF RGe(a, b) THEN a ELSE b
RMin(a, b) == IF RLe(a, b) THEN a ELSE b
Area(a) == RMul(a.width, a.height)
Intersection(a, b) ==
    LET iw == RSub(RMin(RAdd(a.x, a.width), RAdd(b.x, b.width)), RMax(a.x, b.x))
        ih == RSub(RMin(RAdd(a.y, a.height), RAdd(b.y, b.height)), RMax(a.y, b.y))
    IN  IF RLe(iw, R(0)) \/ RLe(ih, R(0)) THEN R(0) ELSE RMul(iw, ih)
\* intersection / union <= threshold, stated without the division
IoUAtMost(a, b, threshold) ==
    RLe(Intersection(a, b),
        RMul(threshold, RSub(RAdd(Area(a), Area(b)), Intersection(a, b))))

C3_ReturnedScoresPassThreshold ==
    Returned =>
        /\ \A k \in 1..Len(ret) : RGe(ret[k][15], scoreThreshold)
        /\ (\A i \in 1..Len(faces) : ~RGe(faces[i][15], scoreThreshold)) => ret = <<>>

C3_Witness ==
    /\ Returned /\ ret # <<>>
    /\ \E i \in 1..Len(faces) : RLt(faces[i][15], scoreThreshold)

\* the number of decoded candidates whose score is >= score_threshold
EligibleCount == Cardinality({ i \in 1..Len(faces) : RGe(faces[i][15], scoreThreshold) })

BestEligible ==
    CHOOSE i \in 1..Len(faces) :
        /\ RGe(faces[i][15], scoreThreshold)
        /\ \A j \in 1..Len(faces) :
               RGe(faces[j][15], scoreThreshold) =>
                   \/ RGt(faces[i][15], faces[j][15])
                   \/ (faces[i][15] = faces[j][15] /\ i <= j)

\* C5 as stated: the returned scores are non-increasing, equal scores come
\* in increasing anchor index, the rows are the decoded candidates
\* themselves, and when a candidate is eligible (score >= score_threshold)
\* and top_k >= 1 the first returned detection is the eligible candidate
\* with the highest score.
C5_OrderedByAcceptance ==
    (ReturnedForMatchingRows /\ Len(faces) > 1) =>
        /\ Len(ret) = Len(keepIdx)
        /\ \A k \in 1..Len(ret) : ret[k] = faces[keepIdx[k]]
        /\ \A i \in 1..Len(ret), j \in 1..Len(ret) :
               i < j => /\ RGe(ret[i][15], ret[j][15])
                        /\ ret[i][15] = ret[j][15] => keepIdx[i] < keepIdx[j]
        /\ (EligibleCount >= 1 /\ topK >= 1) => (ret # <<>> /\ keepIdx[1] = BestEligible)

\* C5 with "eligible" read as score > score_threshold, the comparison the
\* code makes: this is what holds of the code
C5_OrderedByAcceptanceAboveThreshold ==
    (Returned /\ Len(faces) > 1) =>
        /\ Len(ret) = Len(keepIdx)
        /\ \A k \in 1..Len(ret) : ret[k] = faces[keepIdx[k]]
        /\ \A i \in 1..Len(ret), j \in 1..Len(ret) :
               i < j => /\ RGe(ret[i][15], ret[j][15])
                        /\ ret[i][15] = ret[j][15] => keepIdx[i] < keepIdx[j]
        /\ ((\E i \in 1..Len(faces) : RGt(faces[i][15], scoreThreshold)) /\ topK >= 1) =>
               /\ ret # <<>>
               /\ \A j \in 1..Len(faces) :
                      \/ RGt(faces[keepIdx[1]][15], faces[j][15])
                      \/ (faces[keepIdx[1]][15] = faces[j][15] /\ keepIdx[1] <= j)

\* row i (from 0) of a flat buffer with the given number of columns
RowOf(buffer, columns, i) == SubSeq(buffer, i * columns + 1, i * columns + columns)

\* C8: postProcess decodes one candidate per prior, in prior order, and
\* candidate i is determined by priors[i] and row i of loc, of conf and of
\* iou alone: it is what decoding that prior against those three rows gives,
\* so a change of another row leaves it unchanged.
C8_CandidateDependsOnOwnRowOnly ==
    (pc = "ready" /\ calls >= 1 /\ err # "segv" /\ RowsMatch) =>
        /\ Len(faces) = Len(priors)
        /\ \A i \in 0..(Len(priors) - 1) :
               faces[i + 1] = DecodeFace(priors[i + 1], img_w, img_h,
                                         RowOf(loc, 14, i), RowOf(conf, 2, i), RowOf(iou, 1, i), 0)

C8_Witness ==
    /\ pc = "ready" /\ calls >= 1 /\ err = "none" /\ RowsMatch /\ Len(faces) = 3
    /\ RowOf(loc, 14, 0) # RowOf(loc, 14, 1) /\ RowOf(loc, 14, 1) # RowOf(loc, 14, 2)
    /\ RowOf(conf, 2, 0) # RowOf(conf, 2, 1)
    /\ RowOf(iou, 1, 1) # RowOf(iou, 1, 2)

\* the blobs of the last call are those of the first call
SameBlobsAsFirst ==
    /\ loc = Flatten(first.rows, 1)
    /\ conf = Flatten(first.rows, 2)
    /\ iou = Flatten(first.rows, 3)

\* C10: once the constructor has returned no call changes the prior list,
\* the width, the height, the thresholds or top_k, and a call with the same
\* blobs (one row per prior) as the first call returns what the first call
\* returned, whatever calls ran in between.
C10_ConfigFrozenAndCallsRepeatable ==
    /\ [][pc = "ready" => config' = config]_vars
    /\ []((pc = "ready" /\ calls >= 1 /\ RowsMatch /\ SameBlobsAsFirst)
             => (ret = first.ret /\ err = first.err))

\* a third call repeats the first after a call with other blobs
C10_Witness ==
    /\ pc = "ready" /\ calls = 3 /\ RowsMatch /\ SameBlobsAsFirst
    /\ first.rows # InBetween /\ Len(priors) = 3 /\ Len(ret) >= 2

====
